---- MODULE Spec2Model ----
(***************************************************************************)
(* Model of src/auto_migrate_schema.py: the statement splitter, the        *)
(* per-table grouping with its priority sort, and the foreign-key          *)
(* topological sort of the table groups.                                   *)
(*                                                                         *)
(* A text is a sequence of symbols.  A symbol is one character ("a", ";",  *)
(* "$", " ", "\n", ...) or one SQL keyword written as a single symbol      *)
(* ("ALTER", "TABLE", ...), which stands for the characters of that word.  *)
(***************************************************************************)
EXTENDS Integers, Sequences, FiniteSets, TLC

VARIABLES
    pc,                 \* position of the running function
    sql_content,        \* split_sql_statements / parse_sql_by_table: the input text
    line_idx,           \* split_sql_statements: lines consumed by the for loop
    statements,         \* split_sql_statements: statements
    current_stmt,       \* split_sql_statements: current_stmt
    dollar_quote_count, \* split_sql_statements: dollar_quote_count
    stmt_idx,           \* parse_sql_by_table: statements consumed by the for loop
    table_statements,   \* parse_sql_by_table / topological_sort_tables: table_statements
    other_statements,   \* parse_sql_by_table: other_statements
    all_tables,         \* topological_sort_tables: all_tables
    dependencies,       \* topological_sort_tables: dependencies
    build_todo,         \* topological_sort_tables: keys the build loop has yet to visit
    sorted_tables,      \* topological_sort_tables: sorted_tables
    no_deps,            \* topological_sort_tables: no_deps
    visited,            \* topological_sort_tables: visited
    generated_files,    \* __main__: generated_files, the paths of the generated scripts
    disk,               \* the migration directory: path -> content of the file
    flyway_invoked,     \* __main__: run_flyway_migration was called
    exit_status         \* __main__: the exit status of the process once pc = "main_exit"

vars == <<pc, sql_content, line_idx, statements, current_stmt, dollar_quote_count,
          stmt_idx, table_statements, other_statements,
          all_tables, dependencies, build_todo, sorted_tables, no_deps, visited,
          generated_files, disk, flyway_invoked, exit_status>>

splitVars == <<sql_content, line_idx, statements, current_stmt, dollar_quote_count>>
parseVars == <<stmt_idx, other_statements>>
topoVars  == <<all_tables, dependencies, build_todo, sorted_tables, no_deps, visited>>
mainVars  == <<generated_files, disk, flyway_invoked, exit_status>>

(***************************************************************************)
(* Bounds of the model.                                                    *)
(***************************************************************************)
MaxPieces == 6   \* pieces of an input text of the splitter
MaxStmts == 3    \* statements of an input text of parse_sql_by_table
MaxEdges == 4    \* REFERENCES clauses in the table groups given to topological_sort_tables
MaxFiles == 3    \* scripts generated by one run of the main workflow

(***************************************************************************)
(* Python str / list helpers.                                              *)
(***************************************************************************)
NL == "\n"

\* str.isspace for the characters of the model
IsSpace(c) == c \in {" ", NL}

RECURSIVE LStrip(_)
LStrip(s) == IF s # <<>> /\ IsSpace(Head(s)) THEN LStrip(Tail(s)) ELSE s

RECURSIVE RStrip(_)
RStrip(s) == IF s # <<>> /\ IsSpace(s[Len(s)]) THEN RStrip(SubSeq(s, 1, Len(s) - 1)) ELSE s

\* str.strip()
Strip(s) == RStrip(LStrip(s))

\* str.startswith / str.endswith
StartsWith(s, p) == Len(s) >= Len(p) /\ SubSeq(s, 1, Len(p)) = p
EndsWith(s, p) == Len(s) >= Len(p) /\ SubSeq(s, Len(s) - Len(p) + 1, Len(s)) = p

\* str.split('\n'): always at least one line
RECURSIVE SplitLines(_)
SplitLines(s) ==
    IF \A i \in 1..Len(s) : s[i] # NL
    THEN <<s>>
    ELSE LET i == CHOOSE k \in 1..Len(s) : s[k] = NL /\ \A j \in 1..(k - 1) : s[j] # NL
         IN <<SubSeq(s, 1, i - 1)>> \o SplitLines(SubSeq(s, i + 1, Len(s)))

\* sep.join(parts)
RECURSIVE Join(_, _)
Join(parts, sep) ==
    IF parts = <<>> THEN <<>>
    ELSE IF Len(parts) = 1 THEN parts[1]
    ELSE parts[1] \o sep \o Join(Tail(parts), sep)

\* line.count('$$'): non-overlapping occurrences, left to right
RECURSIVE CountDollar(_)
CountDollar(line) ==
    IF Len(line) < 2 THEN 0
    ELSE IF line[1] = "$" /\ line[2] = "$"
         THEN 1 + CountDollar(SubSeq(line, 3, Len(line)))
         ELSE CountDollar(Tail(line))

(***************************************************************************)
(* Case mapping and the regular expressions of the script.                 *)
(* str.upper / str.lower map a symbol as they map the word it stands for.  *)
(***************************************************************************)
UpperOf ==
    ("alter" :> "ALTER") @@ ("table" :> "TABLE") @@ ("add" :> "ADD") @@
    ("constraint" :> "CONSTRAINT") @@ ("foreign" :> "FOREIGN") @@ ("key" :> "KEY") @@
    ("references" :> "REFERENCES") @@ ("create" :> "CREATE") @@ ("index" :> "INDEX") @@
    ("unique" :> "UNIQUE") @@ ("on" :> "ON") @@ ("sequence" :> "SEQUENCE") @@
    ("owned" :> "OWNED") @@ ("by" :> "BY") @@ ("comment" :> "COMMENT") @@
    ("is" :> "IS") @@ ("drop" :> "DROP") @@ ("column" :> "COLUMN") @@
    ("type" :> "TYPE") @@ ("set" :> "SET") @@ ("default" :> "DEFAULT") @@
    ("not" :> "NOT") @@ ("null" :> "NULL") @@ ("trigger" :> "TRIGGER") @@
    ("or" :> "OR") @@ ("replace" :> "REPLACE") @@ ("if" :> "IF") @@
    ("exists" :> "EXISTS") @@ ("only" :> "ONLY") @@ ("concurrently" :> "CONCURRENTLY") @@
    ("function" :> "FUNCTION") @@ ("as" :> "AS") @@ ("owner" :> "OWNER") @@
    ("to" :> "TO") @@ ("public" :> "PUBLIC") @@ ("none" :> "NONE") @@ ("idx" :> "IDX") @@
    ("seq" :> "SEQ") @@ ("int" :> "INT") @@
    ("flyway_schema_history" :> "FLYWAY_SCHEMA_HISTORY") @@ ("a" :> "A") @@
    ("b" :> "B") @@ ("c" :> "C") @@ ("d" :> "D") @@ ("f" :> "F") @@ ("i" :> "I") @@ ("u" :> "U") @@
    ("x" :> "X") @@
    ("delete" :> "DELETE") @@ ("from" :> "FROM") @@ ("where" :> "WHERE")

LowerOf ==
    ("ALTER" :> "alter") @@ ("TABLE" :> "table") @@ ("ADD" :> "add") @@
    ("CONSTRAINT" :> "constraint") @@ ("FOREIGN" :> "foreign") @@ ("KEY" :> "key") @@
    ("REFERENCES" :> "references") @@ ("CREATE" :> "create") @@ ("INDEX" :> "index") @@
    ("UNIQUE" :> "unique") @@ ("ON" :> "on") @@ ("SEQUENCE" :> "sequence") @@
    ("OWNED" :> "owned") @@ ("BY" :> "by") @@ ("COMMENT" :> "comment") @@
    ("IS" :> "is") @@ ("DROP" :> "drop") @@ ("COLUMN" :> "column") @@
    ("TYPE" :> "type") @@ ("SET" :> "set") @@ ("DEFAULT" :> "default") @@
    ("NOT" :> "not") @@ ("NULL" :> "null") @@ ("TRIGGER" :> "trigger") @@
    ("OR" :> "or") @@ ("REPLACE" :> "replace") @@ ("IF" :> "if") @@
    ("EXISTS" :> "exists") @@ ("ONLY" :> "only") @@ ("CONCURRENTLY" :> "concurrently") @@
    ("FUNCTION" :> "function") @@ ("AS" :> "as") @@ ("OWNER" :> "owner") @@
    ("TO" :> "to") @@ ("PUBLIC" :> "public") @@ ("NONE" :> "none") @@ ("IDX" :> "idx") @@
    ("SEQ" :> "seq") @@ ("INT" :> "int") @@
    ("FLYWAY_SCHEMA_HISTORY" :> "flyway_schema_history") @@ ("A" :> "a") @@
    ("B" :> "b") @@ ("C" :> "c") @@ ("D" :> "d") @@ ("F" :> "f") @@ ("I" :> "i") @@ ("U" :> "u") @@
    ("X" :> "x") @@
    ("DELETE" :> "delete") @@ ("FROM" :> "from") @@ ("WHERE" :> "where")

Upper(c) == IF c \in DOMAIN UpperOf THEN UpperOf[c] ELSE c
Lower(c) == IF c \in DOMAIN LowerOf THEN LowerOf[c] ELSE c

\* str.upper() / str.lower()
UpperSeq(s) == [i \in 1..Len(s) |-> Upper(s[i])]
LowerSeq(s) == [i \in 1..Len(s) |-> Lower(s[i])]

\* p in s
Contains(s, p) == \E i \in 1..(Len(s) - Len(p) + 1) : SubSeq(s, i, i + Len(p) - 1) = p

\* the symbols that are not \w
NonWord == {" ", NL, ";", "$", "-", "(", ")", ".", ",", "\""}
IsWord(c) == c \notin NonWord

\* the items of a pattern
Lit(s)    == [k |-> "lit", s |-> s]       \* a word or character, re.IGNORECASE
LitCS(s)  == [k |-> "litcs", s |-> s]     \* a word or character, case-sensitive
OneOf(ss) == [k |-> "oneof", ss |-> ss]   \* (?:A|B|C)
Opt(p)    == [k |-> "opt", p |-> p]       \* (?:p)?
NotLit(s) == [k |-> "notlit", s |-> s]    \* (?!s)
Ws        == [k |-> "ws"]                 \* \s+
Ws0       == [k |-> "ws0"]                \* \s*
NonWs     == [k |-> "nonws"]              \* \S+
Word      == [k |-> "word"]               \* (\w+)
WordLazy  == [k |-> "wordlazy"]           \* (\w+?)
WordNC    == [k |-> "wordnc"]             \* \w+
AnyLazy   == [k |-> "anylazy"]            \* .*?
End       == [k |-> "end"]                \* $
EndLine   == [k |-> "endline"]            \* $ under re.MULTILINE
WordB     == [k |-> "wordb"]              \* \b

NoMatch == [ok |-> FALSE, cap |-> <<>>, e |-> 0]

InClass(k, c) ==
    CASE k \in {"ws", "ws0"} -> IsSpace(c)
      [] k = "nonws" -> ~IsSpace(c)
      [] k \in {"word", "wordlazy", "wordnc"} -> IsWord(c)
      [] k = "anylazy" -> c # NL

\* the length of the run of class k that starts at t[i]
RECURSIVE RunLen(_, _, _)
RunLen(k, t, i) == IF i <= Len(t) /\ InClass(k, t[i]) THEN 1 + RunLen(k, t, i + 1) ELSE 0

\* the backtracking matcher of re: the first match at position i in the order
\* re tries them (greedy items longest first, lazy items shortest first)
RECURSIVE Match(_, _, _, _)
RECURSIVE Greedy(_, _, _, _, _, _, _)
RECURSIVE Lazy(_, _, _, _, _, _, _)

Greedy(rest, t, i, n, min, cap, capturing) ==
    IF n < min THEN NoMatch
    ELSE LET r == Match(rest, t, i + n, IF capturing THEN SubSeq(t, i, i + n - 1) ELSE cap)
         IN IF r.ok THEN r ELSE Greedy(rest, t, i, n - 1, min, cap, capturing)

Lazy(rest, t, i, n, max, cap, capturing) ==
    IF n > max THEN NoMatch
    ELSE LET r == Match(rest, t, i + n, IF capturing THEN SubSeq(t, i, i + n - 1) ELSE cap)
         IN IF r.ok THEN r ELSE Lazy(rest, t, i, n + 1, max, cap, capturing)

Match(pat, t, i, cap) ==
    IF pat = <<>> THEN [ok |-> TRUE, cap |-> cap, e |-> i]
    ELSE LET it == Head(pat)
             rest == Tail(pat)
         IN CASE it.k = "lit" ->
                     IF i <= Len(t) /\ Upper(t[i]) = Upper(it.s)
                     THEN Match(rest, t, i + 1, cap) ELSE NoMatch
              [] it.k = "litcs" ->
                     IF i <= Len(t) /\ t[i] = it.s
                     THEN Match(rest, t, i + 1, cap) ELSE NoMatch
              [] it.k = "oneof" ->
                     IF i <= Len(t) /\ Upper(t[i]) \in it.ss
                     THEN Match(rest, t, i + 1, cap) ELSE NoMatch
              [] it.k = "notlit" ->
                     IF i <= Len(t) /\ Upper(t[i]) = Upper(it.s)
                     THEN NoMatch ELSE Match(rest, t, i, cap)
              [] it.k = "end" ->
                     IF i = Len(t) + 1 THEN Match(rest, t, i, cap) ELSE NoMatch
              [] it.k = "endline" ->
                     IF i = Len(t) + 1 \/ (i <= Len(t) /\ t[i] = NL)
                     THEN Match(rest, t, i, cap) ELSE NoMatch
              [] it.k = "wordb" ->
                     IF (i > 1 /\ i <= Len(t) + 1 /\ IsWord(t[i - 1])) # (i <= Len(t) /\ IsWord(t[i]))
                     THEN Match(rest, t, i, cap) ELSE NoMatch
              [] it.k = "opt" ->
                     LET r == Match(it.p \o rest, t, i, cap)
                     IN IF r.ok THEN r ELSE Match(rest, t, i, cap)
              [] it.k \in {"ws", "nonws", "wordnc"} ->
                     Greedy(rest, t, i, RunLen(it.k, t, i), 1, cap, FALSE)
              [] it.k = "ws0" ->
                     Greedy(rest, t, i, RunLen(it.k, t, i), 0, cap, FALSE)
              [] it.k = "word" ->
                     Greedy(rest, t, i, RunLen(it.k, t, i), 1, cap, TRUE)
              [] it.k = "wordlazy" ->
                     Lazy(rest, t, i, 1, RunLen(it.k, t, i), cap, TRUE)
              [] it.k = "anylazy" ->
                     Lazy(rest, t, i, 0, RunLen(it.k, t, i), cap, FALSE)

\* re.match(pat, t)
ReMatch(pat, t) == Match(pat, t, 1, <<>>)

\* re.search(pat, t): the leftmost match
RECURSIVE SearchFrom(_, _, _)
SearchFrom(pat, t, i) ==
    IF i > Len(t) + 1 THEN NoMatch
    ELSE LET r == Match(pat, t, i, <<>>)
         IN IF r.ok THEN r ELSE SearchFrom(pat, t, i + 1)

ReSearch(pat, t) == SearchFrom(pat, t, 1)

\* re.findall(pat, t) for a pattern with one group: the captures of the
\* non-overlapping matches, left to right, as a set
RECURSIVE FindAllFrom(_, _, _)
FindAllFrom(pat, t, i) ==
    IF i > Len(t) + 1 THEN {}
    ELSE LET r == Match(pat, t, i, <<>>)
         IN IF r.ok
            THEN {r.cap} \cup FindAllFrom(pat, t, IF r.e > i THEN r.e ELSE i + 1)
            ELSE FindAllFrom(pat, t, i + 1)

(***************************************************************************)
(* get_statement_priority                                                  *)
(***************************************************************************)
RE_CreateSequenceAtStart == <<Ws0, LitCS("CREATE"), Ws, LitCS("SEQUENCE")>>
RE_CreateTableAtStart    == <<Ws0, LitCS("CREATE"), Ws, LitCS("TABLE")>>
RE_AddNotConstraint      == <<LitCS("ADD"), Ws, NotLit("CONSTRAINT")>>
RE_CreateIndex           == <<LitCS("CREATE"), Ws, Opt(<<LitCS("UNIQUE"), Ws>>), LitCS("INDEX")>>

get_statement_priority(sql_statement) ==
    LET sql_upper == Strip(UpperSeq(sql_statement))
        has(p) == Contains(sql_upper, p)
        alter_table == has(<<"ALTER", " ", "TABLE">>)
        add_constraint == has(<<"ADD", " ", "CONSTRAINT">>)
        foreign == has(<<"FOREIGN", " ", "KEY">>) \/ has(<<"REFERENCES">>)
    IN  IF has(<<"DROP", " ", "CONSTRAINT">>) THEN 5
        ELSE IF has(<<"DROP", " ", "INDEX">>) THEN 6
        ELSE IF has(<<"DROP", " ", "TRIGGER">>) THEN 7
        ELSE IF ReMatch(RE_CreateSequenceAtStart, sql_upper).ok THEN 10
        ELSE IF ReMatch(RE_CreateTableAtStart, sql_upper).ok THEN 20
        ELSE IF alter_table /\ has(<<"ADD", " ", "COLUMN">>) THEN 30
        ELSE IF alter_table /\ ReSearch(RE_AddNotConstraint, sql_upper).ok THEN 30
        ELSE IF alter_table /\ (has(<<"ALTER", " ", "COLUMN">>) \/ has(<<"TYPE">>)) THEN 31
        ELSE IF alter_table /\ (has(<<"SET", " ", "DEFAULT">>) \/ has(<<"DROP", " ", "DEFAULT">>))
             THEN 32
        ELSE IF alter_table /\ (has(<<"SET", " ", "NOT", " ", "NULL">>)
                                \/ has(<<"DROP", " ", "NOT", " ", "NULL">>))
             THEN 33
        ELSE IF ReSearch(RE_CreateIndex, sql_upper).ok THEN 35
        ELSE IF alter_table /\ add_constraint /\ ~foreign THEN 40
        ELSE IF alter_table THEN 45
        ELSE IF has(<<"ALTER", " ", "SEQUENCE">>) /\ has(<<"OWNED", " ", "BY">>) THEN 50
        ELSE IF has(<<"ALTER", " ", "SEQUENCE">>) THEN 51
        ELSE IF add_constraint /\ foreign THEN 70
        ELSE IF has(<<"CREATE", " ", "TRIGGER">>)
                \/ has(<<"CREATE", " ", "OR", " ", "REPLACE", " ", "TRIGGER">>) THEN 80
        ELSE IF StartsWith(sql_upper, <<"COMMENT", " ", "ON">>) THEN 90
        ELSE IF has(<<"DROP", " ", "TABLE">>) THEN 100
        ELSE 55

(***************************************************************************)
(* extract_table_from_sequence_name, extract_table_name,                   *)
(* extract_foreign_key_references                                          *)
(***************************************************************************)
\* Python's None (and the empty string): no table
None == <<>>

Quote == Opt(<<Lit("\"")>>)                                       \* "?
PublicDot == Opt(<<Quote, Lit("public"), Quote, Lit(".")>>)       \* (?:"?public"?\.)?
Name == <<PublicDot, Quote, Word, Quote>>        \* (?:"?public"?\.)?"?(\w+)"?

\* str.strip('"')
RECURSIVE StripQuotes(_)
StripQuotes(s) ==
    IF s # <<>> /\ Head(s) = "\"" THEN StripQuotes(Tail(s))
    ELSE IF s # <<>> /\ s[Len(s)] = "\"" THEN StripQuotes(SubSeq(s, 1, Len(s) - 1))
    ELSE s

RE_SeqPrefix == <<Opt(<<LitCS("\"")>>), Opt(<<LitCS("public"), LitCS(".")>>)>>
RE_SeqConvention == <<Word, Lit("_"), WordNC, Lit("_"), Lit("seq"), End>>

extract_table_from_sequence_name(seq_name) ==
    LET prefix == ReMatch(RE_SeqPrefix, seq_name)
        clean_name == StripQuotes(SubSeq(seq_name, prefix.e, Len(seq_name)))
        match == ReMatch(RE_SeqConvention, clean_name)
    IN IF match.ok THEN LowerSeq(match.cap) ELSE None

\* ' '.join(s.split())
RECURSIVE NormalizeWhitespace(_)
NormalizeWhitespace(s) ==
    LET t == LStrip(s)
    IN IF t = <<>> THEN <<>>
       ELSE LET n == RunLen("nonws", t, 1)
                rest == NormalizeWhitespace(SubSeq(t, n + 1, Len(t)))
            IN SubSeq(t, 1, n) \o (IF rest = <<>> THEN <<>> ELSE <<" ">> \o rest)

RE_OwnedBy ==
    <<Lit("OWNED"), Ws, Lit("BY"), Ws, Quote, Opt(<<Lit("public"), Lit(".")>>), Quote,
      Word, Quote, Lit("."), Quote, WordNC, Quote>>
RE_Sequence ==
    <<OneOf({"CREATE", "DROP", "ALTER"}), Ws, Lit("SEQUENCE"), Ws,
      Opt(<<Lit("IF"), Ws, Opt(<<Lit("NOT"), Ws>>), Lit("EXISTS"), Ws>>)>> \o Name
RE_CreateTable ==
    <<Lit("CREATE"), Ws, Lit("TABLE"), Ws,
      Opt(<<Lit("IF"), Ws, Lit("NOT"), Ws, Lit("EXISTS"), Ws>>)>> \o Name
RE_AlterTable ==
    <<Lit("ALTER"), Ws, Lit("TABLE"), Ws,
      Opt(<<Lit("IF"), Ws, Lit("EXISTS"), Ws>>), Opt(<<Lit("ONLY"), Ws>>)>> \o Name
RE_DropTable ==
    <<Lit("DROP"), Ws, Lit("TABLE"), Ws, Opt(<<Lit("IF"), Ws, Lit("EXISTS"), Ws>>)>> \o Name
RE_CreateIndexOn ==
    <<Lit("CREATE"), Ws, Opt(<<Lit("UNIQUE"), Ws>>), Lit("INDEX"), Ws,
      Opt(<<Lit("CONCURRENTLY"), Ws>>),
      Opt(<<Lit("IF"), Ws, Lit("NOT"), Ws, Lit("EXISTS"), Ws>>),
      NonWs, Ws, Lit("ON"), Ws, Opt(<<Lit("ONLY"), Ws>>)>> \o Name
RE_DropIndex ==
    <<Lit("DROP"), Ws, Lit("INDEX"), Ws, Opt(<<Lit("CONCURRENTLY"), Ws>>),
      Opt(<<Lit("IF"), Ws, Lit("EXISTS"), Ws>>), PublicDot, Quote,
      Lit("idx"), Lit("_"), WordLazy, Lit("_")>>
RE_CommentOnTable ==
    <<Lit("COMMENT"), Ws, Lit("ON"), Ws, Lit("TABLE"), Ws>> \o Name
RE_CommentOnColumn ==
    <<Lit("COMMENT"), Ws, Lit("ON"), Ws, Lit("COLUMN"), Ws>> \o Name \o <<Lit(".")>>
RE_CreateTrigger ==
    <<Lit("CREATE"), Ws, Opt(<<Lit("OR"), Ws, Lit("REPLACE"), Ws>>), Lit("TRIGGER"), Ws,
      NonWs, Ws, AnyLazy, Ws, Lit("ON"), Ws>> \o Name
RE_DropTrigger ==
    <<Lit("DROP"), Ws, Lit("TRIGGER"), Ws, Opt(<<Lit("IF"), Ws, Lit("EXISTS"), Ws>>),
      NonWs, Ws, Lit("ON"), Ws>> \o Name

\* lines 189-265: the patterns tried in order, the first match decides
TablePatterns ==
    <<RE_CreateTable, RE_AlterTable, RE_DropTable, RE_CreateIndexOn, RE_DropIndex,
      RE_CommentOnTable, RE_CommentOnColumn, RE_CreateTrigger, RE_DropTrigger>>

RECURSIVE FirstCapture(_, _)
FirstCapture(pats, t) ==
    IF pats = <<>> THEN None
    ELSE LET match == ReSearch(Head(pats), t)
         IN IF match.ok THEN LowerSeq(match.cap) ELSE FirstCapture(Tail(pats), t)

extract_table_name(sql_statement) ==
    LET sql_normalized == NormalizeWhitespace(sql_statement)
        sql_upper == UpperSeq(sql_normalized)
        owned ==
            IF Contains(sql_upper, <<"ALTER", " ", "SEQUENCE">>)
               /\ Contains(sql_upper, <<"OWNED", " ", "BY">>)
            THEN LET match == ReSearch(RE_OwnedBy, sql_normalized)
                 IN IF match.ok /\ LowerSeq(match.cap) \notin {<<"none">>, <<"public">>}
                    THEN LowerSeq(match.cap) ELSE None
            ELSE None
        from_seq ==
            IF Contains(sql_upper, <<"SEQUENCE">>)
            THEN LET match == ReSearch(RE_Sequence, sql_normalized)
                 IN IF match.ok THEN extract_table_from_sequence_name(match.cap) ELSE None
            ELSE None
    IN  IF Contains(LowerSeq(sql_normalized), <<"flyway_schema_history">>) THEN None
        ELSE IF owned # None THEN owned
        ELSE IF from_seq # None THEN from_seq
        ELSE FirstCapture(TablePatterns, sql_normalized)

RE_References == <<Lit("REFERENCES"), Ws>> \o Name

extract_foreign_key_references(sql_statement) ==
    {LowerSeq(c) : c \in FindAllFrom(RE_References, sql_statement, 1)}

(***************************************************************************)
(* split_sql_statements                                                    *)
(***************************************************************************)
\* the mutant of EmitStatement: the terminator is stripped with the whitespace
RECURSIVE RStripTerminator(_)
RStripTerminator(s) ==
    IF s # <<>> /\ (IsSpace(s[Len(s)]) \/ s[Len(s)] = ";")
    THEN RStripTerminator(SubSeq(s, 1, Len(s) - 1)) ELSE s

EmitStatement_StripsTerminator(stmts, cur) ==
    LET full_stmt == RStripTerminator(LStrip(Join(cur, <<NL>>)))
    IN IF full_stmt # <<>> THEN Append(stmts, full_stmt) ELSE stmts

\* lines 118-120 and 126-128: join, strip, keep unless empty or a bare ';'
EmitStatement(stmts, cur) ==
    LET full_stmt == Strip(Join(cur, <<NL>>))
    IN IF full_stmt # <<>> /\ full_stmt # <<";">> THEN Append(stmts, full_stmt) ELSE stmts

\* the mutant of ProcessLine: the '$$' parity is not consulted
ProcessLine_IgnoresDollar(st, line) ==
    LET stripped == Strip(line)
    IN IF st.current_stmt = <<>> /\ (stripped = <<>> \/ StartsWith(stripped, <<"-", "-">>))
       THEN st
       ELSE LET cur == Append(st.current_stmt, line)
            IN IF EndsWith(stripped, <<";">>)
               THEN [statements |-> EmitStatement(st.statements, cur),
                     current_stmt |-> <<>>, dollar_quote_count |-> 0]
               ELSE [statements |-> st.statements,
                     current_stmt |-> cur, dollar_quote_count |-> 0]

\* one iteration of the for loop, lines 105-122
ProcessLine(st, line) ==
    LET stripped == Strip(line)
    IN IF st.current_stmt = <<>> /\ (stripped = <<>> \/ StartsWith(stripped, <<"-", "-">>))
       THEN st
       ELSE LET cnt == st.dollar_quote_count + CountDollar(line)
                cur == Append(st.current_stmt, line)
            IN IF EndsWith(stripped, <<";">>) /\ cnt % 2 = 0
               THEN [statements |-> EmitStatement(st.statements, cur),
                     current_stmt |-> <<>>, dollar_quote_count |-> 0]
               ELSE [statements |-> st.statements,
                     current_stmt |-> cur, dollar_quote_count |-> cnt]

\* lines 124-128: the statement left at end of input
FlushRemaining(st) ==
    IF st.current_stmt # <<>> THEN EmitStatement(st.statements, st.current_stmt)
    ELSE st.statements

SplitStart == [statements |-> <<>>, current_stmt |-> <<>>, dollar_quote_count |-> 0]

RECURSIVE ProcessLines(_, _)
ProcessLines(st, ls) ==
    IF ls = <<>> THEN st ELSE ProcessLines(ProcessLine(st, Head(ls)), Tail(ls))

\* the whole function, lines 95-130
split_sql_statements(text) == FlushRemaining(ProcessLines(SplitStart, SplitLines(text)))

(***************************************************************************)
(* The splitter, one line at a time.                                       *)
(***************************************************************************)
Pieces == {<<"a">>, <<";">>, <<"$", "$">>, <<"-", "-">>, <<" ">>, <<NL>>}

RECURSIVE Flatten(_)
Flatten(ps) == IF ps = <<>> THEN <<>> ELSE Head(ps) \o Flatten(Tail(ps))

Lines == SplitLines(sql_content)

IdleParse == stmt_idx = 0 /\ table_statements = <<>> /\ other_statements = <<>>
IdleTopo ==
    /\ all_tables = {} /\ dependencies = <<>> /\ build_todo = <<>>
    /\ sorted_tables = <<>> /\ no_deps = <<>> /\ visited = {}
IdleMain ==
    /\ generated_files = <<>> /\ disk = <<>> /\ flyway_invoked = FALSE /\ exit_status = 0

InitSplit ==
    /\ pc = "split"
    /\ \E n \in 0..MaxPieces : \E ps \in [1..n -> Pieces] : sql_content = Flatten(ps)
    /\ line_idx = 0
    /\ statements = <<>>
    /\ current_stmt = <<>>
    /\ dollar_quote_count = 0
    /\ IdleParse
    /\ IdleTopo
    /\ IdleMain

SplitLine ==
    /\ pc = "split"
    /\ line_idx < Len(Lines)
    /\ LET st == ProcessLine([statements |-> statements, current_stmt |-> current_stmt,
                              dollar_quote_count |-> dollar_quote_count],
                             Lines[line_idx + 1])
       IN /\ statements' = st.statements
          /\ current_stmt' = st.current_stmt
          /\ dollar_quote_count' = st.dollar_quote_count
    /\ line_idx' = line_idx + 1
    /\ UNCHANGED <<pc, sql_content, table_statements>>
    /\ UNCHANGED parseVars
    /\ UNCHANGED topoVars
    /\ UNCHANGED mainVars

SplitFlush ==
    /\ pc = "split"
    /\ line_idx = Len(Lines)
    /\ statements' = FlushRemaining([statements |-> statements, current_stmt |-> current_stmt,
                                     dollar_quote_count |-> dollar_quote_count])
    /\ pc' = "split_done"
    /\ UNCHANGED <<sql_content, line_idx, current_stmt, dollar_quote_count, table_statements>>
    /\ UNCHANGED parseVars
    /\ UNCHANGED topoVars
    /\ UNCHANGED mainVars

NextSplit == SplitLine \/ SplitFlush

SpecSplit == InitSplit /\ [][NextSplit]_vars

(***************************************************************************)
(* Claims about the splitter.                                              *)
(***************************************************************************)
RECURSIVE CountDollarIn(_)
CountDollarIn(ls) == IF ls = <<>> THEN 0 ELSE CountDollar(Head(ls)) + CountDollarIn(Tail(ls))

\* the loop closed a statement at the line it has just consumed
BoundaryRecognized ==
    /\ pc' = "split"
    /\ line_idx' = line_idx + 1
    /\ \/ statements' # statements
       \/ current_stmt # <<>> /\ current_stmt' = <<>>

\* the text is one statement whose body is opened by a '$$' on its first line and
\* closed by a '$$' on its last line, with a line ending in ';' in between
PairedBody ==
    LET n == Len(Lines)
    IN /\ n >= 3
       /\ Strip(Lines[1]) # <<>>
       /\ ~StartsWith(Strip(Lines[1]), <<"-", "-">>)
       /\ CountDollar(Lines[1]) = 1
       /\ CountDollar(Lines[n]) = 1
       /\ EndsWith(Strip(Lines[n]), <<";">>)
       /\ \A i \in 2..(n - 1) : CountDollar(Lines[i]) = 0
       /\ \E i \in 2..(n - 1) : EndsWith(Strip(Lines[i]), <<";">>)

\* C7: the loop closes a statement only at a line whose trimmed text ends with ';'
\* while the number of '$$' seen since the statement began is even; so a text that
\* is one body between two '$$' on different lines, with lines ending in ';' in
\* between, comes out as exactly one statement.
C7_BoundaryOnlyOutsideBody ==
    /\ [][BoundaryRecognized =>
            /\ EndsWith(Strip(Lines[line_idx + 1]), <<";">>)
            /\ (CountDollarIn(current_stmt) + CountDollar(Lines[line_idx + 1])) % 2 = 0]_vars
    /\ [](pc = "split_done" /\ PairedBody => statements = <<Strip(sql_content)>>)

C7_Witness ==
    /\ pc = "split_done"
    /\ PairedBody
    /\ Len(statements) = 1

\* C10: joining the returned statements with blank lines and splitting again
\* returns the same statements, also when the last one was flushed at end of
\* input without ';' or inside an open '$$' body.
C10_SplitIdempotent ==
    pc = "split_done" =>
        split_sql_statements(Join(statements, <<NL, NL>>)) = statements

C10_Witness ==
    /\ pc = "split_done"
    /\ Len(statements) >= 2
    /\ current_stmt # <<>>
    /\ dollar_quote_count % 2 = 1
    /\ split_sql_statements(Join(statements, <<NL, NL>>)) = statements

(***************************************************************************)
(* parse_sql_by_table                                                      *)
(***************************************************************************)
Range(f) == {f[i] : i \in DOMAIN f}

\* defaultdict(list): table_statements[table_name].append(stmt)
AppendTo(groups, table_name, stmt) ==
    [t \in DOMAIN groups \cup {table_name} |->
        IF t = table_name
        THEN Append(IF t \in DOMAIN groups THEN groups[t] ELSE <<>>, stmt)
        ELSE groups[t]]

\* the mutant of Attribute: an attributed statement is also kept as 'other'
Attribute_AlsoOther(groups, other, stmt) ==
    LET table_name == extract_table_name(stmt)
    IN IF table_name # None
       THEN [table_statements |-> AppendTo(groups, table_name, stmt),
             other_statements |-> Append(other, stmt)]
       ELSE [table_statements |-> groups, other_statements |-> Append(other, stmt)]

\* one iteration of the for loop, lines 342-348
Attribute(groups, other, stmt) ==
    LET table_name == extract_table_name(stmt)
    IN IF table_name # None
       THEN [table_statements |-> AppendTo(groups, table_name, stmt),
             other_statements |-> other]
       ELSE [table_statements |-> groups, other_statements |-> Append(other, stmt)]

\* the mutant of InsertByPriority: the statement goes before its equals
InsertByPriority_BeforeEquals(sorted, stmt) ==
    LET k == get_statement_priority(stmt)
        n == Cardinality({i \in 1..Len(sorted) : get_statement_priority(sorted[i]) < k})
    IN SubSeq(sorted, 1, n) \o <<stmt>> \o SubSeq(sorted, n + 1, Len(sorted))

\* list.sort(key=get_statement_priority) is stable: a statement goes after
\* every earlier statement whose priority is not greater
InsertByPriority(sorted, stmt) ==
    LET k == get_statement_priority(stmt)
        n == Cardinality({i \in 1..Len(sorted) : get_statement_priority(sorted[i]) <= k})
    IN SubSeq(sorted, 1, n) \o <<stmt>> \o SubSeq(sorted, n + 1, Len(sorted))

RECURSIVE SortByPriorityFrom(_, _)
SortByPriorityFrom(sorted, stmts) ==
    IF stmts = <<>> THEN sorted
    ELSE SortByPriorityFrom(InsertByPriority(sorted, Head(stmts)), Tail(stmts))

\* line 352
SortByPriority(stmts) == SortByPriorityFrom(<<>>, stmts)

(***************************************************************************)
(* The input texts of parse_sql_by_table: statements as the diff tool      *)
(* prints them, one after the other.                                       *)
(***************************************************************************)
Words(ws) == Join([i \in 1..Len(ws) |-> <<ws[i]>>], <<" ">>)

StmtCreateTableA == Words(<<"CREATE", "TABLE", "a", "(", "x", "int", ")", ";">>)
StmtForeignKeyA ==
    Words(<<"ALTER", "TABLE", "a", "ADD", "CONSTRAINT", "f", "FOREIGN", "KEY",
            "(", "x", ")", "REFERENCES", "b", "(", "x", ")", ";">>)
StmtOwnedByA ==
    Words(<<"ALTER", "SEQUENCE">>) \o <<" ", "a", "_", "x", "_", "seq", " ">>
    \o Words(<<"OWNED", "BY">>) \o <<" ", "a", ".", "x", ";">>
StmtOwnerA == Words(<<"ALTER", "TABLE", "a", "OWNER", "TO", "u", ";">>)
StmtCreateTableB ==
    Words(<<"create", "table">>) \o <<" ", "\"", "public", "\"", ".", "\"", "B", "\"", " ">>
    \o Words(<<"(", "x", "int", ")", ";">>)
StmtCommentA == Words(<<"COMMENT", "ON", "TABLE", "a", "IS", "x", ";">>)
StmtFunction ==
    Words(<<"CREATE", "FUNCTION", "f", "(", ")", "AS">>) \o <<" ", "$", "$", NL>>
    \o <<"x", ";", NL, "$", "$", ";">>
StmtPool ==
    {StmtCreateTableA, StmtForeignKeyA, StmtOwnedByA, StmtOwnerA,
     StmtCreateTableB, StmtCommentA, StmtFunction}

InitParse ==
    /\ pc = "parse_split"
    /\ \E n \in 0..MaxStmts : \E ss \in [1..n -> StmtPool] : sql_content = Join(ss, <<NL>>)
    /\ line_idx = 0
    /\ statements = <<>>
    /\ current_stmt = <<>>
    /\ dollar_quote_count = 0
    /\ IdleParse
    /\ IdleTopo
    /\ IdleMain

\* line 337
ParseSplit ==
    /\ pc = "parse_split"
    /\ statements' = split_sql_statements(sql_content)
    /\ pc' = "parse_group"
    /\ UNCHANGED <<sql_content, line_idx, current_stmt, dollar_quote_count, table_statements>>
    /\ UNCHANGED parseVars
    /\ UNCHANGED topoVars
    /\ UNCHANGED mainVars

\* lines 342-348
ParseAttribute ==
    /\ pc = "parse_group"
    /\ stmt_idx < Len(statements)
    /\ LET r == Attribute(table_statements, other_statements, statements[stmt_idx + 1])
       IN /\ table_statements' = r.table_statements
          /\ other_statements' = r.other_statements
    /\ stmt_idx' = stmt_idx + 1
    /\ UNCHANGED pc
    /\ UNCHANGED splitVars
    /\ UNCHANGED topoVars
    /\ UNCHANGED mainVars

\* lines 350-354
ParseSort ==
    /\ pc = "parse_group"
    /\ stmt_idx = Len(statements)
    /\ table_statements' =
           [t \in DOMAIN table_statements |-> SortByPriority(table_statements[t])]
    /\ pc' = "parse_done"
    /\ UNCHANGED parseVars
    /\ UNCHANGED splitVars
    /\ UNCHANGED topoVars
    /\ UNCHANGED mainVars

NextParse == ParseSplit \/ ParseAttribute \/ ParseSort

SpecParse == InitParse /\ [][NextParse]_vars

(***************************************************************************)
(* Claims about parse_sql_by_table and get_statement_priority.             *)
(***************************************************************************)
\* how many times x occurs in the sequence s
Occurrences(x, s) == Cardinality({i \in 1..Len(s) : s[i] = x})

RECURSIVE SumOver(_, _)
SumOver(f, S) ==
    IF S = {} THEN 0
    ELSE LET x == CHOOSE y \in S : TRUE IN f[x] + SumOver(f, S \ {x})

\* the statements the grouping loop has consumed
Consumed == SubSeq(statements, 1, stmt_idx)

GroupsHolding(stmt) == {t \in DOMAIN table_statements : stmt \in Range(table_statements[t])}

\* C5: every statement of the splitter is in the group of exactly one table or
\* in 'other', never both; the groups' counts plus the count of 'other' add up to
\* the number of statements, before and after the priority sort.
C5_Partition ==
    pc \in {"parse_group", "parse_done"} =>
        /\ SumOver([t \in DOMAIN table_statements |-> Len(table_statements[t])],
                   DOMAIN table_statements)
           + Len(other_statements) = Len(Consumed)
        /\ \A stmt \in Range(Consumed) :
              /\ \/ Cardinality(GroupsHolding(stmt)) = 1 /\ stmt \notin Range(other_statements)
                 \/ GroupsHolding(stmt) = {} /\ stmt \in Range(other_statements)
              /\ Occurrences(stmt, Consumed) =
                     SumOver([t \in DOMAIN table_statements |->
                                 Occurrences(stmt, table_statements[t])],
                             DOMAIN table_statements)
                     + Occurrences(stmt, other_statements)

C5_Witness ==
    /\ pc = "parse_done"
    /\ Len(statements) = 3
    /\ \E t \in DOMAIN table_statements :
          /\ Len(table_statements[t]) = 2
          /\ table_statements[t] # SelectSeq(statements, LAMBDA x : extract_table_name(x) = t)
    /\ Len(other_statements) = 1

\* an ALTER TABLE ... ADD CONSTRAINT statement with FOREIGN KEY or REFERENCES
IsForeignKeyConstraint(stmt) ==
    LET u == UpperSeq(stmt)
    IN /\ Contains(u, <<"ALTER", " ", "TABLE">>)
       /\ Contains(u, <<"ADD", " ", "CONSTRAINT">>)
       /\ Contains(u, <<"FOREIGN", " ", "KEY">>) \/ Contains(u, <<"REFERENCES">>)

\* C6: a foreign-key ADD CONSTRAINT statement has priority 70, and in its group
\* it comes after every statement of priority 55 or lower.
C6_ForeignKeyLast ==
    pc = "parse_done" =>
        \A t \in DOMAIN table_statements :
            LET g == table_statements[t]
            IN \A i \in 1..Len(g) :
                  IsForeignKeyConstraint(g[i]) =>
                      /\ get_statement_priority(g[i]) = 70
                      /\ \A j \in 1..Len(g) : get_statement_priority(g[j]) <= 55 => j < i

\* C8: after parse_sql_by_table the statements of a group are in non-decreasing
\* priority order, and the statements of one priority are, in order, the
\* statements the splitter produced for that table with that priority.
C8_SortedStable ==
    pc = "parse_done" =>
        \A t \in DOMAIN table_statements :
            LET g == table_statements[t]
            IN /\ \A i, j \in 1..Len(g) :
                     i < j => get_statement_priority(g[i]) <= get_statement_priority(g[j])
               /\ \A k \in {get_statement_priority(x) : x \in Range(g)} :
                     SelectSeq(g, LAMBDA x : get_statement_priority(x) = k)
                     = SelectSeq(statements,
                                 LAMBDA x : extract_table_name(x) = t
                                            /\ get_statement_priority(x) = k)

C8_Witness ==
    /\ pc = "parse_done"
    /\ \E t \in DOMAIN table_statements :
          LET g == table_statements[t]
          IN /\ Len(g) = 3
             /\ g # SelectSeq(statements, LAMBDA x : extract_table_name(x) = t)
             /\ \E i \in 1..2 :
                   /\ g[i] # g[i + 1]
                   /\ get_statement_priority(g[i]) = get_statement_priority(g[i + 1])

(***************************************************************************)
(* topological_sort_tables                                                 *)
(***************************************************************************)
\* the characters of table names, in code-point order
NameChars == <<"_", "a", "b", "c", "d">>
CharRank(c) == CHOOSE i \in 1..Len(NameChars) : NameChars[i] = c

\* s < t on Python strings
RECURSIVE LexLess(_, _)
LexLess(s, t) ==
    IF t = <<>> THEN FALSE
    ELSE IF s = <<>> THEN TRUE
    ELSE IF Head(s) = Head(t) THEN LexLess(Tail(s), Tail(t))
    ELSE CharRank(Head(s)) < CharRank(Head(t))

\* sorted(S) for a set of names
RECURSIVE SortNames(_)
SortNames(S) ==
    IF S = {} THEN <<>>
    ELSE LET m == CHOOSE x \in S : \A y \in S \ {x} : LexLess(x, y)
         IN <<m>> \o SortNames(S \ {m})

\* list.sort() for a list of names
RECURSIVE SortList(_)
SortList(l) ==
    IF l = <<>> THEN <<>>
    ELSE LET rest == SortList(Tail(l))
             n == Cardinality({i \in 1..Len(rest) : LexLess(rest[i], Head(l))})
         IN SubSeq(rest, 1, n) \o <<Head(l)>> \o SubSeq(rest, n + 1, Len(rest))

\* the mutant of EdgesOf: every reference becomes an edge, line 296 left out
EdgesOf_KeepsEveryReference(table_name, stmts, tables) ==
    {LowerSeq(ref) : ref \in UNION {extract_foreign_key_references(stmts[i]) :
                                    i \in 1..Len(stmts)}}

\* lines 292-297 for one table: the references that become edges
EdgesOf(table_name, stmts, tables) ==
    {ref_lower \in {LowerSeq(ref) : ref \in UNION {extract_foreign_key_references(stmts[i]) :
                                                   i \in 1..Len(stmts)}} :
        ref_lower \in tables /\ ref_lower # table_name}

\* defaultdict(set): the key exists once an edge was added
AddEdges(deps, table_name, edges) ==
    IF edges = {} THEN deps
    ELSE [t \in DOMAIN deps \cup {table_name} |->
             IF t = table_name
             THEN (IF t \in DOMAIN deps THEN deps[t] ELSE {}) \cup edges
             ELSE deps[t]]

\* the mutant of Release: a table is ready as soon as one dependency is placed
Release_FreesAtOnce(st, table, other_table, placed) ==
    IF table \in st.dependencies[other_table]
    THEN LET deps == [st.dependencies EXCEPT ![other_table] = @ \ {table}]
         IN IF other_table \notin placed
            THEN [dependencies |-> deps, no_deps |-> SortList(Append(st.no_deps, other_table))]
            ELSE [dependencies |-> deps, no_deps |-> st.no_deps]
    ELSE st

\* the mutant of Release: the ready list is not sorted after the append
Release_NoSort(st, table, other_table, placed) ==
    IF table \in st.dependencies[other_table]
    THEN LET deps == [st.dependencies EXCEPT ![other_table] = @ \ {table}]
         IN IF deps[other_table] = {} /\ other_table \notin placed
            THEN [dependencies |-> deps, no_deps |-> Append(st.no_deps, other_table)]
            ELSE [dependencies |-> deps, no_deps |-> st.no_deps]
    ELSE st

\* the body of the inner for loop, lines 317-321
Release(st, table, other_table, placed) ==
    IF table \in st.dependencies[other_table]
    THEN LET deps == [st.dependencies EXCEPT ![other_table] = @ \ {table}]
         IN IF deps[other_table] = {} /\ other_table \notin placed
            THEN [dependencies |-> deps, no_deps |-> SortList(Append(st.no_deps, other_table))]
            ELSE [dependencies |-> deps, no_deps |-> st.no_deps]
    ELSE st

\* the inner for loop, line 316, over sorted(all_tables - visited)
RECURSIVE ReleaseAll(_, _, _, _)
ReleaseAll(st, table, others, placed) ==
    IF others = <<>> THEN st
    ELSE ReleaseAll(Release(st, table, Head(others), placed), table, Tail(others), placed)

\* the mutant of AppendRemaining: the unplaced tables are only reported
AppendRemaining_OnlyWarns(sorted, remaining) == sorted

\* lines 324-327
AppendRemaining(sorted, remaining) ==
    IF remaining # {} THEN sorted \o SortNames(remaining) ELSE sorted

(***************************************************************************)
(* The table groups given to topological_sort_tables: each table has its   *)
(* CREATE TABLE statement and one REFERENCES clause per chosen target.     *)
(***************************************************************************)
TableNames == {<<"a">>, <<"a", "b">>, <<"b">>, <<"c">>}

\* the ways the diff tool and hand-written SQL spell a referenced table
Spelling(r) ==
    IF r = <<"a">> THEN <<"\"", "public", "\"", ".", "\"", "a", "\"">>
    ELSE IF r = <<"a", "b">> THEN <<"A", "B">>
    ELSE IF r = <<"b">> THEN <<"public", ".", "b">>
    ELSE r

CreateTable(t) == <<"CREATE", " ", "TABLE", " ">> \o t \o <<"(", "x", ")", ";">>

RECURSIVE InlineReferences(_)
InlineReferences(rs) ==
    IF rs = <<>> THEN <<>>
    ELSE <<"x", " ", "int", " ", "references", " ">> \o Spelling(Head(rs))
         \o (IF Len(rs) > 1 THEN <<",", NL>> ELSE <<>>) \o InlineReferences(Tail(rs))

CreateTableReferencing(t, rs) ==
    <<"CREATE", " ", "TABLE", " ">> \o t \o <<"(">> \o InlineReferences(rs) \o <<")", ";">>

ForeignKey(t, r) ==
    <<"ALTER", " ", "TABLE", " ">> \o t
    \o <<" ", "ADD", " ", "CONSTRAINT", " ", "f", " ", "FOREIGN", " ", "KEY", "(", "x", ")",
         " ", "REFERENCES", " ">> \o Spelling(r) \o <<"(", "x", ")", ";">>

\* table c declares its references inline, the others by ALTER TABLE
StatementsOf(t, targets) ==
    LET rs == SortNames(targets)
    IN IF t = <<"c">> /\ rs # <<>>
       THEN <<CreateTableReferencing(t, rs)>>
       ELSE <<CreateTable(t)>> \o [i \in 1..Len(rs) |-> ForeignKey(t, rs[i])]

InitTopo ==
    /\ pc = "topo_build"
    /\ \E T \in SUBSET TableNames \ {{}} :
          \E E \in SUBSET (T \X TableNames) :
             /\ Cardinality(E) <= MaxEdges
             /\ table_statements = [t \in T |-> StatementsOf(t, {r \in TableNames : <<t, r>> \in E})]
    /\ all_tables = DOMAIN table_statements
    /\ dependencies = <<>>
    /\ build_todo = SortNames(all_tables)
    /\ sorted_tables = <<>>
    /\ no_deps = <<>>
    /\ visited = {}
    /\ sql_content = <<>>
    /\ line_idx = 0
    /\ statements = <<>>
    /\ current_stmt = <<>>
    /\ dollar_quote_count = 0
    /\ stmt_idx = 0
    /\ other_statements = <<>>
    /\ IdleMain

\* lines 291-297, one table of the outer loop.  A dict is iterated in the order
\* its keys were inserted; the edges added for a table depend on that table's
\* statements alone, and the model visits the keys in sorted order.
BuildStep ==
    /\ pc = "topo_build"
    /\ build_todo # <<>>
    /\ LET table_name == Head(build_todo)
       IN dependencies' = AddEdges(dependencies, table_name,
                                   EdgesOf(table_name, table_statements[table_name],
                                           all_tables))
    /\ build_todo' = Tail(build_todo)
    /\ UNCHANGED <<pc, table_statements, all_tables, sorted_tables, no_deps, visited>>
    /\ UNCHANGED splitVars
    /\ UNCHANGED parseVars
    /\ UNCHANGED mainVars

\* lines 299-307
InitKahn ==
    /\ pc = "topo_build"
    /\ build_todo = <<>>
    /\ LET deps == [t \in all_tables |->
                        IF t \in DOMAIN dependencies THEN dependencies[t] ELSE {}]
       IN /\ dependencies' = deps
          /\ no_deps' = SortNames({t \in all_tables : deps[t] = {}})
    /\ sorted_tables' = <<>>
    /\ visited' = {}
    /\ pc' = "topo_loop"
    /\ UNCHANGED <<table_statements, all_tables, build_todo>>
    /\ UNCHANGED splitVars
    /\ UNCHANGED parseVars
    /\ UNCHANGED mainVars

\* one iteration of the while loop, lines 309-321
KahnStep ==
    /\ pc = "topo_loop"
    /\ no_deps # <<>>
    /\ LET table == Head(no_deps)
       IN IF table \in visited
          THEN /\ no_deps' = Tail(no_deps)
               /\ UNCHANGED <<visited, sorted_tables, dependencies>>
          ELSE LET placed == visited \cup {table}
                   st == ReleaseAll([dependencies |-> dependencies, no_deps |-> Tail(no_deps)],
                                    table, SortNames(all_tables \ placed), placed)
               IN /\ visited' = placed
                  /\ sorted_tables' = Append(sorted_tables, table)
                  /\ dependencies' = st.dependencies
                  /\ no_deps' = st.no_deps
    /\ UNCHANGED <<pc, table_statements, all_tables, build_todo>>
    /\ UNCHANGED splitVars
    /\ UNCHANGED parseVars
    /\ UNCHANGED mainVars

\* lines 323-329
Finish ==
    /\ pc = "topo_loop"
    /\ no_deps = <<>>
    /\ sorted_tables' = AppendRemaining(sorted_tables, all_tables \ visited)
    /\ pc' = "topo_done"
    /\ UNCHANGED <<table_statements, all_tables, dependencies, build_todo, no_deps, visited>>
    /\ UNCHANGED splitVars
    /\ UNCHANGED parseVars
    /\ UNCHANGED mainVars

NextTopo == BuildStep \/ InitKahn \/ KahnStep \/ Finish

SpecTopo == InitTopo /\ [][NextTopo]_vars

(***************************************************************************)
(* Claims about topological_sort_tables.                                   *)
(***************************************************************************)
\* the tables named after REFERENCES in the statements of A
ReferencedBy(A) ==
    UNION {extract_foreign_key_references(table_statements[A][i]) :
           i \in 1..Len(table_statements[A])}

\* the dependency graph of the input, as table -> set of tables: 'A depends on
\* B' when A has a statement with REFERENCES B, B is a table group of this run
\* and B # A
Graph == [A \in DOMAIN table_statements |->
             LET refs == ReferencedBy(A)
             IN {B \in DOMAIN table_statements \ {A} : B \in refs}]

\* the tables reachable from the set S along the edges of g
RECURSIVE Reachable(_, _)
Reachable(g, S) ==
    LET next == S \cup UNION {g[t] : t \in S}
    IN IF next = S THEN S ELSE Reachable(g, next)

OnCycle(g, t) == t \in Reachable(g, g[t])
Acyclic(g) == \A t \in DOMAIN g : ~OnCycle(g, t)

\* B is at an earlier position of sorted_tables than A
Precedes(B, A) ==
    \E i, j \in 1..Len(sorted_tables) :
        i < j /\ sorted_tables[i] = B /\ sorted_tables[j] = A

\* C1: on an acyclic dependency graph the returned order is a topological
\* order: every table comes after the tables it depends on.
C1_TopologicalOrder ==
    pc = "topo_done" =>
        LET g == Graph
        IN Acyclic(g) => \A A \in DOMAIN g : \A B \in g[A] : Precedes(B, A)

C1_Witness ==
    /\ pc = "topo_done"
    /\ LET g == Graph
       IN /\ Acyclic(g)
          /\ \E A \in DOMAIN g : Cardinality(g[A]) = 2
          /\ sorted_tables # SortNames(all_tables)
          /\ \A A \in DOMAIN g : \A B \in g[A] : Precedes(B, A)

\* C2: on any dependency graph, an edge between two tables that are on no
\* cycle is respected by the returned order, also when the two tables are
\* downstream of a cycle.
C2_OrderOffCycles ==
    pc = "topo_done" =>
        LET g == Graph
        IN \A A \in DOMAIN g : \A B \in g[A] :
              ~OnCycle(g, A) /\ ~OnCycle(g, B) => Precedes(B, A)

\* the returned sequence holds every table of the input exactly once
IsPermutation ==
    /\ Len(sorted_tables) = Cardinality(all_tables)
    /\ Range(sorted_tables) = DOMAIN table_statements

\* C3: on every input, with or without cycles, the function returns (every
\* iteration of the while loop places one more table of the input, so the loop
\* ends after at most as many iterations as there are tables), and the returned
\* sequence holds every table of the input exactly once and nothing else.
C3_ReturnsPermutation ==
    /\ [][pc = "topo_loop" /\ pc' = "topo_loop" =>
            /\ visited \subseteq visited'
            /\ visited' \subseteq all_tables
            /\ Cardinality(visited') = Cardinality(visited) + 1]_vars
    /\ [](pc = "topo_done" => IsPermutation)

C3_Witness ==
    /\ pc = "topo_done"
    /\ ~Acyclic(Graph)
    /\ visited # {}
    /\ visited # all_tables
    /\ IsPermutation

\* C4: every table the elimination leaves unplaced is on a dependency cycle,
\* and no table is left unplaced exactly when the graph is acyclic.
C4_RemainderOnCycles ==
    pc = "topo_done" =>
        LET g == Graph
            remaining == all_tables \ visited
        IN /\ \A t \in remaining : OnCycle(g, t)
           /\ remaining = {} <=> Acyclic(g)

\* the tables not yet placed whose remaining dependency set is empty
Ready == {t \in all_tables \ visited : dependencies[t] = {}}

\* C9: at every iteration of the elimination loop the ready list holds exactly
\* the unplaced tables with no remaining dependency, in increasing order, and
\* the table appended to the order is the smallest of them.
C9_SmallestReadyFirst ==
    /\ [](pc = "topo_loop" =>
            /\ Range(no_deps) = Ready
            /\ \A i, j \in 1..Len(no_deps) : i < j => LexLess(no_deps[i], no_deps[j]))
    /\ [][pc = "topo_loop" /\ pc' = "topo_loop" /\ sorted_tables' # sorted_tables =>
            LET table == sorted_tables'[Len(sorted_tables')]
            IN /\ sorted_tables' = Append(sorted_tables, table)
               /\ table \in Ready
               /\ \A t \in Ready \ {table} : LexLess(table, t)]_vars

C9_Witness ==
    /\ pc = "topo_loop"
    /\ Len(sorted_tables) = 2
    /\ Cardinality(Ready) = 2
    /\ \E t \in Ready : Graph[t] # {} /\ t = no_deps[1]

\* C11: at every point of the build and of the elimination loop, the dependency
\* set of each table A holds only tables that are groups of this run and never
\* A itself; so a reference to a table outside the run, or to A, makes no edge.
C11_EdgesWithinRun ==
    \A A \in DOMAIN dependencies :
        /\ A \in all_tables
        /\ dependencies[A] \subseteq all_tables \ {A}

\* the build is over for a table that references itself, a table outside the
\* run and a table of the run: only the last one is an edge
C11_Witness ==
    /\ pc = "topo_loop"
    /\ \E A \in all_tables :
          /\ A \in ReferencedBy(A)
          /\ ReferencedBy(A) \ all_tables # {}
          /\ Graph[A] # {}
          /\ dependencies[A] = Graph[A]

(***************************************************************************)
(* The main workflow: check_delete_where_clause, run_sqlfluff_validation,  *)
(* delete_generated_files and the __main__ block.  A path is the version   *)
(* number of the script; disk maps the paths that exist to their content.  *)
(***************************************************************************)
\* DELETE\s+FROM\s+\S+;
RE_DeleteSemicolon == <<Lit("DELETE"), Ws, Lit("FROM"), Ws, NonWs, Lit(";")>>
\* \bDELETE\s+FROM\s+\S+\s*$
RE_DeleteEndOfLine == <<WordB, Lit("DELETE"), Ws, Lit("FROM"), Ws, NonWs, Ws0, EndLine>>

\* unsafe_delete_pattern.search(content): one of the two alternatives matches
\* somewhere in the text
unsafe_delete_pattern(content) ==
    ReSearch(RE_DeleteSemicolon, content).ok \/ ReSearch(RE_DeleteEndOfLine, content).ok

check_delete_where_clause(script_path) == ~unsafe_delete_pattern(disk[script_path])

\* the first statement of the function body is 'return True': the loop over
\* the scripts below it is never entered
run_sqlfluff_validation(script_paths) == TRUE

\* os.remove of every path that exists (os.remove succeeding)
delete_generated_files(file_paths) ==
    [p \in DOMAIN disk \ Range(file_paths) |-> disk[p]]

\* write_migration_file: a comment header, the statements joined by blank
\* lines, a comment footer
Script(stmts) ==
    <<"-", "-", " ", "a", NL, NL>> \o Join(stmts, <<NL, NL>>) \o <<NL, NL, "-", "-", " ", "a", NL>>

StmtDeleteAll      == Words(<<"DELETE", "FROM", "a">>) \o <<";">>
StmtDeleteAllLower == Words(<<"delete", "from", "a">>)
StmtDeleteWhere    == Words(<<"DELETE", "FROM", "a", "WHERE", "x">>) \o <<";">>
StmtDropColumn     == Words(<<"ALTER", "TABLE", "a", "DROP", "COLUMN", "x">>) \o <<";">>

ScriptPool ==
    {Script(<<StmtDeleteAll>>), Script(<<StmtDeleteAllLower>>), Script(<<StmtDeleteWhere>>),
     Script(<<StmtDropColumn>>), Script(<<StmtDropColumn, StmtDeleteAll>>)}

\* line 646: the scripts run_migra_and_generate_scripts wrote and returned
InitMain ==
    /\ pc = "main_generated"
    /\ \E n \in 0..MaxFiles :
          /\ generated_files = [i \in 1..n |-> i]
          /\ disk \in [1..n -> ScriptPool]
    /\ flyway_invoked = FALSE
    /\ exit_status = 0
    /\ sql_content = <<>>
    /\ line_idx = 0
    /\ statements = <<>>
    /\ current_stmt = <<>>
    /\ dollar_quote_count = 0
    /\ IdleParse
    /\ IdleTopo

\* lines 648-650: display_file_contents reads the files and prints them
Display ==
    /\ pc = "main_generated"
    /\ generated_files # <<>>
    /\ pc' = "main_validate"
    /\ UNCHANGED mainVars
    /\ UNCHANGED <<table_statements>>
    /\ UNCHANGED splitVars
    /\ UNCHANGED parseVars
    /\ UNCHANGED topoVars

\* lines 666-669: nothing was generated
NoChanges ==
    /\ pc = "main_generated"
    /\ generated_files = <<>>
    /\ pc' = "main_exit"
    /\ UNCHANGED mainVars
    /\ UNCHANGED <<table_statements>>
    /\ UNCHANGED splitVars
    /\ UNCHANGED parseVars
    /\ UNCHANGED topoVars

\* lines 653-656
Validate ==
    /\ pc = "main_validate"
    /\ IF ~run_sqlfluff_validation(generated_files)
       THEN /\ disk' = delete_generated_files(generated_files)
            /\ exit_status' = 1
            /\ pc' = "main_exit"
       ELSE /\ pc' = "main_migrate"
            /\ UNCHANGED <<disk, exit_status>>
    /\ UNCHANGED <<generated_files, flyway_invoked>>
    /\ UNCHANGED <<table_statements>>
    /\ UNCHANGED splitVars
    /\ UNCHANGED parseVars
    /\ UNCHANGED topoVars

\* lines 659-666: the outcome of the Maven run is the environment's
Migrate ==
    /\ pc = "main_migrate"
    /\ flyway_invoked' = TRUE
    /\ \E success \in BOOLEAN :
          IF success
          THEN UNCHANGED <<disk, exit_status>>
          ELSE /\ disk' = delete_generated_files(generated_files)
               /\ exit_status' = 1
    /\ pc' = "main_exit"
    /\ UNCHANGED generated_files
    /\ UNCHANGED <<table_statements>>
    /\ UNCHANGED splitVars
    /\ UNCHANGED parseVars
    /\ UNCHANGED topoVars

NextMain == Display \/ NoChanges \/ Validate \/ Migrate

SpecMain == InitMain /\ [][NextMain]_vars

(***************************************************************************)
(* Claims about the main workflow.                                         *)
(***************************************************************************)
\* a generated script on disk holds a DELETE FROM without a WHERE clause
UnsafeScriptGenerated ==
    \E i \in 1..Len(generated_files) :
        /\ generated_files[i] \in DOMAIN disk
        /\ ~check_delete_where_clause(generated_files[i])

\* C12: when a generated script holds a DELETE FROM without a WHERE clause, the
\* validation step rejects the run: the generated files are deleted, the
\* process exits with status 1, and run_flyway_migration is never invoked.
C12_UnsafeDeleteStopsRun ==
    /\ [][pc = "main_validate" /\ UnsafeScriptGenerated =>
            /\ pc' = "main_exit"
            /\ exit_status' = 1
            /\ \A i \in 1..Len(generated_files) : generated_files[i] \notin DOMAIN disk'
            /\ ~flyway_invoked']_vars
    /\ [](UnsafeScriptGenerated => ~flyway_invoked)

====
